---- MODULE Spec2Model ----
(***************************************************************************)
(* Model of src/endpoints/secrets.js: the per-user secrets file            *)
(* (secrets.json), the flat secret operations, the managed-key rotation    *)
(* operations and the express routes that expose them.                     *)
(*                                                                         *)
(* JavaScript values are tagged records: Undef is `undefined`, Str(s) a    *)
(* string, Num(n) a number, Obj(o) a plain object whose properties are the *)
(* domain of the function o.  A property that is `undefined` is dropped by *)
(* JSON.stringify, so "missing" and "undefined" are the same value Undef   *)
(* in a persisted document.  Comments and search texts are sequences of    *)
(* one-character strings, so that trim() and toLowerCase() are computed.   *)
(***************************************************************************)
EXTENDS Integers, Sequences, FiniteSets, TLC

VARIABLES disk, last, touched, cyc, calls, order, disk0, mon, allowKeysExposure,
          client

vars == <<disk, last, touched, cyc, calls, order, disk0, mon, allowKeysExposure,
         client>>

(***************************************************************************)
(* Bounds of the model.                                                    *)
(***************************************************************************)
\* Most entries the requests of the model put in one managed list.
MaxLen == 2
\* Longest managed list the rotation specification starts from.
MaxRotLen == 3
\* Most successive rotate calls the rotation specification follows.
MaxRotCalls == 4
\* Number of requests issued concurrently in the concurrency specification.
NCalls == 2
\* Most commands the user of the client gives in one behaviour.
MaxCommands == 2

(***************************************************************************)
(* JavaScript values.                                                      *)
(***************************************************************************)
Undef == [t |-> "undef"]
Str(s) == [t |-> "str", s |-> s]
Num(n) == [t |-> "num", n |-> n]
Obj(o) == [t |-> "obj", o |-> o]
Arr(a) == [t |-> "arr", a |-> a]

EmptyObject == [k \in {} |-> <<>>]

\* !!v : undefined and the empty string are falsy, objects and arrays truthy.
Truthy(v) == ~(v = Undef \/ v = Str(""))

\* obj[key] for a value obj that is an object (own property or undefined) or
\* a primitive string (no property of these names).
Prop(obj, key) ==
    IF obj.t = "obj" /\ key \in DOMAIN obj.o THEN Arr(obj.o[key]) ELSE Undef

\* Array.isArray(v)
IsArray(v) == v.t = "arr"

(***************************************************************************)
(* String.prototype.trim and toLowerCase on character sequences.           *)
(***************************************************************************)
RECURSIVE TrimStart(_)
TrimStart(s) ==
    IF s = <<>> THEN <<>>
    ELSE IF Head(s) = " " THEN TrimStart(Tail(s)) ELSE s

RECURSIVE TrimEnd(_)
TrimEnd(s) ==
    IF s = <<>> THEN <<>>
    ELSE IF s[Len(s)] = " " THEN TrimEnd(SubSeq(s, 1, Len(s) - 1)) ELSE s

Trim(s) == TrimEnd(TrimStart(s))

LowerChar(c) ==
    CASE c = "P" -> "p"
      [] c = "Q" -> "q"
      [] OTHER -> c

ToLowerCase(s) == [i \in 1..Len(s) |-> LowerChar(s[i])]

(***************************************************************************)
(* The catalog and the document.                                           *)
(***************************************************************************)
\* Three logical key names of SECRET_KEYS: OPENAI, CLAUDE and LIBRE_URL.
SECRET_KEYS == {"api_key_openai", "api_key_claude", "libre_url"}

\* Top-level property names of the document: the catalog and `managed`.
Names == SECRET_KEYS \cup {"managed"}

\* Object.freeze({ managed: {} })
INITIAL_STATE == [n \in Names |-> IF n = "managed" THEN Obj(EmptyObject) ELSE Undef]

\* The secrets file: absent, or holding a JSON document.
NoFile == [exists |-> FALSE]
File(doc) == [exists |-> TRUE, doc |-> doc]

\* A file that exists and whose contents JSON.parse rejects.
CorruptFile == [exists |-> TRUE]

\* JSON.parse(fileContents) throws a SyntaxError.
ParseThrows(d) == d.exists /\ "doc" \notin DOMAIN d

\* getSecretState: the empty state when the file does not exist, else the parsed
\* file (of a file that parses; the callers below divert on ParseThrows).
getSecretState(d) == IF ~d.exists THEN INITIAL_STATE ELSE d.doc

\* updateSecretState: the whole file replaced by the serialized state.
updateSecretState(state) == File(state)

\* What a handler leaves behind: whether it saved, the state it saved, and
\* whether it ended by throwing.
Saved(state) == [save |-> TRUE, state |-> state, threw |-> FALSE]
Returned(state) == [save |-> FALSE, state |-> state, threw |-> FALSE]
Threw(state) == [save |-> FALSE, state |-> state, threw |-> TRUE]

Commit(d, out) == IF out.save THEN updateSecretState(out.state) ELSE d

(***************************************************************************)
(* Flat secrets: writeSecret, deleteSecret, readSecret.                    *)
(* The ...On operators take the state the function loaded first; the       *)
(* operators named as in the source load it from the file.                 *)
(***************************************************************************)
\* secrets[key] = value; updateSecretState(directories, secrets)
writeSecretOn(secrets, key, value) == Saved([secrets EXCEPT ![key] = value])

writeSecret(d, key, value) == writeSecretOn(getSecretState(d), key, value)

\* delete secrets[key]; updateSecretState(directories, secrets)
deleteSecretOn(secrets, key) == Saved([secrets EXCEPT ![key] = Undef])

deleteSecret(d, key) == deleteSecretOn(getSecretState(d), key)

\* return secrets[key]
readSecret(d, key) == getSecretState(d)[key]

(***************************************************************************)
(* rotateManagedSecret.  Positions are 0-based as in the source; a         *)
(* sequence holds the entry of position i at i + 1.  NotFound is the -1 of *)
(* findIndex and the undefined of find.                                    *)
(***************************************************************************)
NotFound == -1

\* Variant: findLastIndex in place of findIndex.
FindIndexByValue_Last(managed, currentSecret) ==
    LET hits == {i \in 0..(Len(managed) - 1) : managed[i + 1].value = currentSecret}
    IN IF hits = {} THEN NotFound ELSE CHOOSE i \in hits : \A j \in hits : i >= j

\* Variant: a saved value that is missing or empty is never looked up.
FindIndexByValue_Truthy(managed, currentSecret) ==
    LET hits == {i \in 0..(Len(managed) - 1) :
                    Truthy(currentSecret) /\ managed[i + 1].value = currentSecret}
    IN IF hits = {} THEN NotFound ELSE CHOOSE i \in hits : \A j \in hits : i <= j

\* managed.findIndex((key) => key.value === currentSecret)
FindIndexByValue(managed, currentSecret) ==
    LET hits == {i \in 0..(Len(managed) - 1) : managed[i + 1].value = currentSecret}
    IN IF hits = {} THEN NotFound ELSE CHOOSE i \in hits : \A j \in hits : i <= j

\* Variant: the comparison without toLowerCase.
CommentMatches_CaseSensitive(comment, text) == Trim(comment) = Trim(text)

\* String(key.comment).trim().toLowerCase() === searchValue.trim().toLowerCase()
CommentMatches(comment, text) == ToLowerCase(Trim(comment)) = ToLowerCase(Trim(text))

\* managed.find(key => ...): the position of the first entry whose comment matches
FindByComment(managed, text) ==
    LET hits == {i \in 0..(Len(managed) - 1) : CommentMatches(managed[i + 1].comment, text)}
    IN IF hits = {} THEN NotFound ELSE CHOOSE i \in hits : \A j \in hits : i <= j

\* Variant: searchValue > 0 in place of searchValue >= 0.
IndexSelects_FromOne(managed, searchValue) ==
    searchValue.t = "num" /\ searchValue.n > 0 /\ searchValue.n < Len(managed)

\* typeof searchValue === 'number' && searchValue >= 0 && searchValue < managed.length
IndexSelects(managed, searchValue) ==
    searchValue.t = "num" /\ searchValue.n >= 0 /\ searchValue.n < Len(managed)

\* typeof searchValue === 'string' && searchValue.trim().length > 0
CommentSearches(searchValue) ==
    searchValue.t = "str" /\ Len(Trim(searchValue.s)) > 0

\* Variant: managed[currentIndex + 1] || managed[currentIndex], no wrap to the first.
NextPosition_NoWrap(managed, currentSecret) ==
    LET currentIndex == FindIndexByValue(managed, currentSecret)
    IN IF currentIndex + 1 < Len(managed) THEN currentIndex + 1
       ELSE IF currentIndex = NotFound THEN 0 ELSE currentIndex

\* managed[currentIndex + 1] || managed[0]
NextPosition(managed, currentSecret) ==
    LET currentIndex == FindIndexByValue(managed, currentSecret)
    IN IF currentIndex + 1 < Len(managed) THEN currentIndex + 1 ELSE 0

\* Variant: the first entry whenever the search selects nothing.
KeyDataPosition_First(managed, searchValue, currentSecret) ==
    LET byIndex == IF IndexSelects(managed, searchValue) THEN searchValue.n ELSE NotFound
        bySearch == IF CommentSearches(searchValue)
                    THEN FindByComment(managed, searchValue.s)
                    ELSE byIndex
    IN IF bySearch # NotFound THEN bySearch ELSE 0

\* The position of keyData: by index, then by comment (which replaces the
\* index result whenever the search is a non-blank string), then the next one.
KeyDataPosition(managed, searchValue, currentSecret) ==
    LET byIndex == IF IndexSelects(managed, searchValue) THEN searchValue.n ELSE NotFound
        bySearch == IF CommentSearches(searchValue)
                    THEN FindByComment(managed, searchValue.s)
                    ELSE byIndex
    IN IF bySearch # NotFound THEN bySearch ELSE NextPosition(managed, currentSecret)

\* if (!Array.isArray(secrets.managed[key]) || secrets.managed[key].length === 0) return
NothingToRotate(list) == ~IsArray(list) \/ Len(list.a) = 0

\* Variant: the state is written back before the early returns.
rotateOn_SavesFirst(secrets, d, key, searchValue) ==
    IF ~Truthy(secrets["managed"]) THEN Saved(secrets)
    ELSE LET list == Prop(secrets["managed"], key) IN
         IF NothingToRotate(list) THEN Saved(secrets)
         ELSE LET p == KeyDataPosition(list.a, searchValue, readSecret(d, key))
              IN writeSecret(d, key, list.a[p + 1].value)

\* Variant: the saved value is removed, the selected entry's value is not written.
rotateOn_Clears(secrets, d, key, searchValue) ==
    IF ~Truthy(secrets["managed"]) THEN Returned(secrets)
    ELSE LET list == Prop(secrets["managed"], key) IN
         IF NothingToRotate(list) THEN Returned(secrets)
         ELSE deleteSecret(d, key)

\* Variant: the selected entry is also moved to the front of the list.
rotateOn_Reorders(secrets, d, key, searchValue) ==
    IF ~Truthy(secrets["managed"]) THEN Returned(secrets)
    ELSE LET list == Prop(secrets["managed"], key) IN
         IF NothingToRotate(list) THEN Returned(secrets)
         ELSE LET p == KeyDataPosition(list.a, searchValue, readSecret(d, key))
                  moved == <<list.a[p + 1]>> \o SubSeq(list.a, 1, p)
                              \o SubSeq(list.a, p + 2, Len(list.a))
                  m == secrets["managed"].o
              IN Saved([secrets EXCEPT ![key] = list.a[p + 1].value,
                                       !["managed"] = Obj([m EXCEPT ![key] = moved])])

rotateOn(secrets, d, key, searchValue) ==
    IF ~Truthy(secrets["managed"]) THEN Returned(secrets)
    ELSE LET list == Prop(secrets["managed"], key) IN
         IF NothingToRotate(list) THEN Returned(secrets)
         ELSE LET p == KeyDataPosition(list.a, searchValue, readSecret(d, key))
              IN writeSecret(d, key, list.a[p + 1].value)

rotateManagedSecret(d, key, searchValue) == rotateOn(getSecretState(d), d, key, searchValue)

(***************************************************************************)
(* appendManagedKey, spliceManagedKey, probeManagedKey.                    *)
(***************************************************************************)
\* Variant: unshift in place of push.
PushEntry_Front(list, comment, value) == <<[comment |-> comment, value |-> value]>> \o list

\* secrets.managed[key].push({ comment, value })
PushEntry(list, comment, value) == Append(list, [comment |-> comment, value |-> value])

\* Variant: secrets.managed[key] = [] without the test.
WithList_Reset(o, key) ==
    [k \in DOMAIN o \cup {key} |-> IF k = key THEN <<>> ELSE o[k]]

\* if (!secrets.managed[key]) secrets.managed[key] = []
WithList(o, key) ==
    IF key \in DOMAIN o THEN o
    ELSE [k \in DOMAIN o \cup {key} |-> IF k = key THEN <<>> ELSE o[k]]

\* Variant: without `if (!secrets.managed) secrets.managed = {}`.
appendOn_NoInit(secrets, key, comment, value) ==
    LET m == secrets["managed"]
    IN IF m.t # "obj" THEN Threw(secrets)
       ELSE LET o1 == WithList(m.o, key)
                o2 == [o1 EXCEPT ![key] = PushEntry(@, comment, value)]
            IN Saved([secrets EXCEPT !["managed"] = Obj(o2)])

\* Variant: the appended value is saved as the key's value as well.
appendOn_Activates(secrets, key, comment, value) ==
    LET s1 == IF ~Truthy(secrets["managed"])
              THEN [secrets EXCEPT !["managed"] = Obj(EmptyObject)]
              ELSE secrets
        m == s1["managed"]
    IN IF m.t # "obj" THEN Threw(secrets)
       ELSE LET o1 == WithList(m.o, key)
                o2 == [o1 EXCEPT ![key] = PushEntry(@, comment, value)]
            IN Saved([s1 EXCEPT !["managed"] = Obj(o2), ![key] = value])

\* In module code an assignment to a property of a primitive string throws.
appendOn(secrets, key, comment, value) ==
    LET s1 == IF ~Truthy(secrets["managed"])
              THEN [secrets EXCEPT !["managed"] = Obj(EmptyObject)]
              ELSE secrets
        m == s1["managed"]
    IN IF m.t # "obj" THEN Threw(secrets)
       ELSE LET o1 == WithList(m.o, key)
                o2 == [o1 EXCEPT ![key] = PushEntry(@, comment, value)]
            IN Saved([s1 EXCEPT !["managed"] = Obj(o2)])

appendManagedKey(d, key, comment, value) == appendOn(getSecretState(d), key, comment, value)

\* Variant: list.splice(start), which removes everything from start on.
SpliceOne_ToEnd(list, start) ==
    IF start >= Len(list) THEN list ELSE SubSeq(list, 1, start)

\* list.splice(start, 1): nothing is removed when start is past the end
SpliceOne(list, start) ==
    IF start >= Len(list) THEN list
    ELSE SubSeq(list, 1, start) \o SubSeq(list, start + 2, Len(list))

\* if (index < 0 || index >= secrets.managed[key].length) return
\* (both comparisons are false for an index that is undefined)
IndexRejected(list, index) ==
    index.t = "num" /\ (index.n < 0 \/ index.n >= Len(list))

\* splice's start: ToIntegerOrInfinity(undefined) is 0
SpliceStart(index) == IF index.t = "num" THEN index.n ELSE 0

spliceOn(secrets, key, index) ==
    IF ~Truthy(secrets["managed"]) \/ ~IsArray(Prop(secrets["managed"], key))
    THEN Returned(secrets)
    ELSE LET m == secrets["managed"] IN
         IF IndexRejected(m.o[key], index) THEN Returned(secrets)
         ELSE Saved([secrets EXCEPT !["managed"] =
                        Obj([m.o EXCEPT ![key] = SpliceOne(@, SpliceStart(index))])])

spliceManagedKey(d, key, index) == spliceOn(getSecretState(d), key, index)

ProbeResult(result, index) == [result |-> result, index |-> index]

probeOn(secrets, d, key) ==
    IF ~Truthy(secrets["managed"]) \/ ~IsArray(Prop(secrets["managed"], key))
    THEN ProbeResult(FALSE, -1)
    ELSE LET index == FindIndexByValue(secrets["managed"].o[key], readSecret(d, key))
         IN ProbeResult(index # NotFound, index)

probeManagedKey(d, key) == probeOn(getSecretState(d), d, key)

(***************************************************************************)
(* The routes.  A handler is one synchronous callback: it runs from its    *)
(* first load to its response without yielding.  A route result holds what *)
(* the handler left behind, the response status and the response body.     *)
(***************************************************************************)
NoBody == ProbeResult(FALSE, -1)

\* An uncaught exception reaches express' error handler; otherwise sendStatus(204).
AckStatus(out) == IF out.threw THEN 500 ELSE 204

Reply(out, status, body) == [out |-> out, status |-> status, body |-> body]

\* router.post('/write')
WriteHandler(secrets, key, value) ==
    LET out == writeSecretOn(secrets, key, value) IN Reply(out, AckStatus(out), NoBody)

\* deleteSecret, as the other modules of the server call it
DeleteHandler(secrets, key) ==
    LET out == deleteSecretOn(secrets, key) IN Reply(out, AckStatus(out), NoBody)

\* manager.post('/rotate')
RotateHandler(secrets, d, key, searchValue) ==
    LET out == rotateOn(secrets, d, key, searchValue) IN Reply(out, AckStatus(out), NoBody)

\* manager.post('/append')
AppendHandler(secrets, key, comment, value) ==
    LET out == appendOn(secrets, key, comment, value) IN Reply(out, AckStatus(out), NoBody)

\* manager.post('/splice')
SpliceHandler(secrets, key, index) ==
    LET out == spliceOn(secrets, key, index) IN Reply(out, AckStatus(out), NoBody)

\* manager.post('/probe')
ProbeHandler(secrets, d, key) ==
    Reply(Returned(secrets), 200, probeOn(secrets, d, key))

\* Variant: the saved value is appended without the probe.
MigrateHandler_NoProbe(secrets, d, key, comment) ==
    LET out == appendManagedKey(d, key, comment, readSecret(d, key))
    IN Reply(out, AckStatus(out), NoBody)

\* manager.post('/migrate'): 409 when the probe finds the saved value, else append it
MigrateHandler(secrets, d, key, comment) ==
    IF probeOn(secrets, d, key).result
    THEN Reply(Returned(secrets), 409, NoBody)
    ELSE LET out == appendManagedKey(d, key, comment, readSecret(d, key))
         IN Reply(out, AckStatus(out), NoBody)

(***************************************************************************)
(* Requests.                                                               *)
(***************************************************************************)
Request(op, key, comment, value, search, index) ==
    [op |-> op, key |-> key, comment |-> comment, value |-> value,
     search |-> search, index |-> index]

\* The handler of a request, given the state it loaded first and the file.
Handle(req, secrets, d) ==
    CASE req.op = "write" -> WriteHandler(secrets, req.key, req.value)
      [] req.op = "delete" -> DeleteHandler(secrets, req.key)
      [] req.op = "rotate" -> RotateHandler(secrets, d, req.key, req.search)
      [] req.op = "append" -> AppendHandler(secrets, req.key, req.comment, req.value)
      [] req.op = "splice" -> SpliceHandler(secrets, req.key, req.index)
      [] req.op = "probe" -> ProbeHandler(secrets, d, req.key)
      [] req.op = "migrate" -> MigrateHandler(secrets, d, req.key, req.comment)

\* The whole handler run against the file.  None of these seven handlers has a
\* try/catch: the SyntaxError of the first getSecretState ends the handler
\* before any save and reaches express' error handler.
Serve(req, d) ==
    IF ParseThrows(d) THEN Reply(Threw(INITIAL_STATE), 500, NoBody)
    ELSE Handle(req, getSecretState(d), d)

(***************************************************************************)
(* The reading routes: /manager/state, /read, /find and /view.             *)
(***************************************************************************)
\* secrets[key] of a parsed document: undefined for a name it does not hold.
Get(secrets, key) == IF key \in DOMAIN secrets THEN secrets[key] ELSE Undef

\* Variant: the entry's value is copied into the state as well.
ManagedKeyState_WithValue(secrets, key, secret) ==
    [comment |-> secret.comment, selected |-> (Get(secrets, key) = secret.value),
     value |-> secret.value]

\* { comment: secret.comment, selected: secrets[key] === secret.value }
ManagedKeyState(secrets, key, secret) ==
    [comment |-> secret.comment, selected |-> (Get(secrets, key) = secret.value)]

\* readManagedSecretsState, of a document whose `managed` is missing or an object.
readManagedSecretsState(d) ==
    LET secrets == getSecretState(d)
        m == secrets["managed"]
    IN IF ~Truthy(m) \/ m.t # "obj" THEN EmptyObject
       ELSE [key \in DOMAIN m.o |->
                [i \in 1..Len(m.o[key]) |-> ManagedKeyState(secrets, key, m.o[key][i])]]

\* readSecretState: {} without a file, else one boolean per catalog key.
readSecretState(d) ==
    IF ~d.exists THEN EmptyObject
    ELSE [key \in SECRET_KEYS \ {"managed"} |-> Truthy(getSecretState(d)[key])]

\* getAllSecrets: undefined without a file, else the parsed file.
getAllSecrets(d) == IF ~d.exists THEN Undef ELSE Obj(d.doc)

\* The four keys that may be read while allowKeysExposure is false.
EXPORTABLE_KEYS == {"libre_url", "lingva_url", "oneringtranslator_url", "deeplx_url"}

\* manager.post('/state'): no try/catch
StateHandler(d) ==
    IF ParseThrows(d) THEN Reply(Threw(INITIAL_STATE), 500, NoBody)
    ELSE Reply(Returned(getSecretState(d)), 200, readManagedSecretsState(d))

\* router.post('/read'): the catch block answers {} as well
ReadHandler(d) ==
    IF ParseThrows(d) THEN Reply(Returned(INITIAL_STATE), 200, EmptyObject)
    ELSE Reply(Returned(getSecretState(d)), 200, readSecretState(d))

\* router.post('/view')
ViewHandler(d, allow) ==
    IF ~allow THEN Reply(Returned(INITIAL_STATE), 403, NoBody)
    ELSE IF ParseThrows(d) THEN Reply(Returned(INITIAL_STATE), 500, NoBody)
    ELSE IF ~Truthy(getAllSecrets(d)) THEN Reply(Returned(INITIAL_STATE), 404, NoBody)
    ELSE Reply(Returned(getSecretState(d)), 200, getAllSecrets(d))

\* Variant: the value is looked up without the exposure test.
FindHandler_Ungated(d, allow, key) ==
    IF ParseThrows(d) THEN Reply(Returned(INITIAL_STATE), 500, NoBody)
    ELSE IF ~Truthy(readSecret(d, key)) THEN Reply(Returned(getSecretState(d)), 404, NoBody)
    ELSE Reply(Returned(getSecretState(d)), 200, [value |-> readSecret(d, key)])

\* router.post('/find')
FindHandler(d, allow, key) ==
    IF ~allow /\ key \notin EXPORTABLE_KEYS THEN Reply(Returned(INITIAL_STATE), 403, NoBody)
    ELSE IF ParseThrows(d) THEN Reply(Returned(INITIAL_STATE), 500, NoBody)
    ELSE IF ~Truthy(readSecret(d, key)) THEN Reply(Returned(getSecretState(d)), 404, NoBody)
    ELSE Reply(Returned(getSecretState(d)), 200, [value |-> readSecret(d, key)])

\* The handler of a reading request, given the file and the configuration.
ServeRead(req, d, allow) ==
    CASE req.op = "state" -> StateHandler(d)
      [] req.op = "read" -> ReadHandler(d)
      [] req.op = "view" -> ViewHandler(d, allow)
      [] req.op = "find" -> FindHandler(d, allow, req.key)

(***************************************************************************)
(* Inputs of the model.                                                    *)
(***************************************************************************)
\* The key the requests of the model name.
Keys == {"api_key_openai"}

\* Secret values a caller writes: two keys and the empty string.
WriteValues == {Str("a"), Str("b"), Str("")}

\* Comments: "p", " P ", "" and "q".
CommentP == <<"p">>
CommentPadded == <<" ", "P", " ">>
CommentEmpty == <<>>
CommentQ == <<"q">>

AppendInputs ==
    { [comment |-> CommentP, value |-> Str("a")],
      [comment |-> CommentPadded, value |-> Str("b")],
      [comment |-> CommentEmpty, value |-> Str("a")] }

MigrateComments == {CommentQ}

\* Search values: none, "", " ", "p", "P ", "z" and the integers -1..MaxLen.
Searches ==
    {Undef, Str(<<>>), Str(<<" ">>), Str(<<"p">>), Str(<<"P", " ">>), Str(<<"z">>)}
    \cup {Num(n) : n \in -1..MaxLen}

\* Splice indices: the integers -1..MaxLen, and a request that carries none.
Indices == {Undef} \cup {Num(n) : n \in -1..MaxLen}

\* The entries of all managed lists of a file.
ManagedOf(d) ==
    IF ParseThrows(d) THEN EmptyObject
    ELSE LET m == getSecretState(d)["managed"] IN IF m.t = "obj" THEN m.o ELSE EmptyObject

\* The managed list of a key, empty when there is none.
ListOf(d, key) ==
    IF key \in DOMAIN ManagedOf(d) THEN ManagedOf(d)[key] ELSE <<>>

(***************************************************************************)
(* The server: one action per operation, each a whole handler.             *)
(***************************************************************************)
NoRequest == Request("none", "", <<>>, Undef, Undef, Undef)

\* History of the requests served, kept as two counters.  wap counts the
\* steps of "write(K, v), append(K, c, v), probe(K)" served back to back;
\* scen counts the steps of the scenario "write(K, a), migrate(K, q),
\* append(K, " P ", b), rotate(K, ""), probe(K)" served back to back from a
\* user with no secrets file.
NoWap == [n |-> 0, key |-> "", value |-> Undef]

NoMon == [wap |-> NoWap, scen |-> 0, changed |-> FALSE, listed |-> {}]

\* The document a file stands for; a file that does not parse stands for none.
DocumentOf(d) == IF ParseThrows(d) THEN CorruptFile ELSE getSecretState(d)

WapNext(w, req, status) ==
    IF req.op = "write" /\ status = 204
    THEN [n |-> 1, key |-> req.key, value |-> req.value]
    ELSE IF req.op = "append" /\ status = 204 /\ w.n = 1
            /\ req.key = w.key /\ req.value = w.value
    THEN [w EXCEPT !.n = 2]
    ELSE IF req.op = "probe" /\ w.n = 2 /\ req.key = w.key
    THEN [w EXCEPT !.n = 3]
    ELSE NoWap

ScenarioKey == "api_key_openai"

ScenarioSteps ==
    << Request("write", ScenarioKey, <<>>, Str("a"), Undef, Undef),
       Request("migrate", ScenarioKey, CommentQ, Undef, Undef, Undef),
       Request("append", ScenarioKey, CommentPadded, Str("b"), Undef, Undef),
       Request("rotate", ScenarioKey, <<>>, Undef, Str(<<>>), Undef),
       Request("probe", ScenarioKey, <<>>, Undef, Undef, Undef) >>

ScenNext(n, req, d) ==
    IF n < Len(ScenarioSteps) /\ n >= 1 /\ req = ScenarioSteps[n + 1] THEN n + 1
    ELSE IF req = ScenarioSteps[1] /\ ~d.exists THEN 1
    ELSE 0

\* changed: some request served so far left a document other than the one it found.
\* listed: the keys an acknowledged append or migrate named so far.
MonNext(m, req, d, status, post) ==
    [wap |-> WapNext(m.wap, req, status),
     scen |-> ScenNext(m.scen, req, d),
     changed |-> (m.changed \/ DocumentOf(post) # DocumentOf(d)),
     listed |-> IF req.op \in {"append", "migrate"} /\ status = 204
                THEN m.listed \cup {req.key} ELSE m.listed]

Done(req, d, r, again) ==
    [req |-> req, pre |-> d, status |-> r.status, body |-> r.body, again |-> again]

(***************************************************************************)
(* The browser client: values it computes before a request is sent.        *)
(***************************************************************************)
\* null, as JSON carries it; typeof null is 'object' on the server.
Null == [t |-> "null"]

\* The number NaN.
NaN == [t |-> "nan"]

DigitValue(c) ==
    CASE c = "0" -> 0
      [] c = "1" -> 1
      [] OTHER -> 2

\* The longest prefix of s made of digits (0, 1 and 2 in this model).
RECURSIVE LeadingDigits(_)
LeadingDigits(s) ==
    IF s = <<>> THEN <<>>
    ELSE IF Head(s) \in {"0", "1", "2"} THEN <<Head(s)>> \o LeadingDigits(Tail(s)) ELSE <<>>

RECURSIVE DecimalValue(_)
DecimalValue(s) ==
    IF s = <<>> THEN 0
    ELSE 10 * DecimalValue(SubSeq(s, 1, Len(s) - 1)) + DigitValue(s[Len(s)])

\* parseInt(s): leading white space skipped, then the digits up to the first
\* other character; NaN when there is none.  (Texts hold no sign and no 0x.)
ParseInt(s) ==
    LET digits == LeadingDigits(TrimStart(s))
    IN IF digits = <<>> THEN NaN ELSE Num(DecimalValue(digits))

\* Number(s): the trimmed text as a whole numeral, 0 for the empty text, NaN
\* otherwise.  (Texts hold no sign, point or exponent.)
NumberOf(s) ==
    LET text == Trim(s)
    IN IF text = <<>> THEN Num(0)
       ELSE IF LeadingDigits(text) = text THEN Num(DecimalValue(text)) ELSE NaN

\* isNaN(parseInt(String(value))) ? String(value) : Number(value)
ResolveSearch(value) ==
    IF ParseInt(value) = NaN THEN Str(value) ELSE NumberOf(value)

\* JSON.stringify of a body property: NaN is written as null.
JsonValue(v) == IF v = NaN THEN Null ELSE v

\* The client before its module is evaluated.  state is MANAGER_STATE,
\* secret_state the flags of '../../secrets.js'; cmd, text, index, value and
\* start describe the command in progress or last completed (start is the
\* file when it began), sent the search of its rotate request, failed whether
\* one of its requests got no answer, then where a write continues, and beat
\* the parity of the requests of the Clear All loop, count the commands begun,
\* listed whether MANAGER_STATE held the key when the command began.
NoClient ==
    [pc |-> "off", state |-> EmptyObject, secret_state |-> {}, cmd |-> "none",
     text |-> <<>>, index |-> -1, value |-> Undef, start |-> NoFile,
     sent |-> Undef, failed |-> FALSE, selected |-> FALSE, then |-> "idle",
     beat |-> 0, count |-> 0, listed |-> FALSE]

\* A file written by a version without the manager: a value, no `managed`.
LegacyDoc ==
    [n \in Names |-> IF n = "api_key_openai" THEN Str("a") ELSE Undef]

InitDisks == {NoFile, File(LegacyDoc)}

NoCalls == <<>>

Init ==
    /\ disk \in InitDisks
    /\ last = Done(NoRequest, disk, Reply(Returned(INITIAL_STATE), 0, NoBody), FALSE)
    /\ touched = {k \in Keys : disk.exists /\ disk.doc[k] # Undef}
    /\ cyc = [on |-> FALSE]
    /\ calls = NoCalls
    /\ order = <<>>
    /\ disk0 = disk
    /\ mon = [NoMon EXCEPT !.changed = disk.exists, !.listed = DOMAIN ManagedOf(disk)]
    /\ allowKeysExposure = FALSE
    /\ client = NoClient

\* The request runs to completion: the file and the record of the last call.
Record(req, r) ==
    /\ disk' = Commit(disk, r.out)
    /\ last' = Done(req, disk, r,
                    /\ req.op = "migrate"
                    /\ last.req.op = "migrate"
                    /\ last.req.key = req.key
                    /\ last.status = 204)
    /\ mon' = MonNext(mon, req, disk, r.status, Commit(disk, r.out))
    /\ UNCHANGED <<calls, order, disk0, allowKeysExposure>>

Run(req) == Record(req, Serve(req, disk)) /\ UNCHANGED client

RunRead(req) == Record(req, ServeRead(req, disk, allowKeysExposure)) /\ UNCHANGED client

WriteSecret ==
    \E key \in Keys, value \in WriteValues :
        /\ Run(Request("write", key, <<>>, value, Undef, Undef))
        /\ touched' = touched \cup {key}
        /\ UNCHANGED cyc

DeleteSecret ==
    \E key \in Keys :
        /\ Run(Request("delete", key, <<>>, Undef, Undef, Undef))
        /\ UNCHANGED <<touched, cyc>>

ManagerRotate ==
    \E key \in Keys, search \in Searches :
        /\ Run(Request("rotate", key, <<>>, Undef, search, Undef))
        /\ UNCHANGED <<touched, cyc>>

ManagerAppend ==
    \E key \in Keys, e \in AppendInputs :
        /\ Len(ListOf(disk, key)) < MaxLen
        /\ Run(Request("append", key, e.comment, e.value, Undef, Undef))
        /\ touched' = touched \cup {key}
        /\ UNCHANGED cyc

ManagerSplice ==
    \E key \in Keys, index \in Indices :
        /\ Run(Request("splice", key, <<>>, Undef, Undef, index))
        /\ UNCHANGED <<touched, cyc>>

ManagerProbe ==
    \E key \in Keys :
        /\ Run(Request("probe", key, <<>>, Undef, Undef, Undef))
        /\ UNCHANGED <<touched, cyc>>

ManagerMigrate ==
    \E key \in Keys, comment \in MigrateComments :
        /\ IF ParseThrows(disk) THEN TRUE
           ELSE probeManagedKey(disk, key).result \/ Len(ListOf(disk, key)) < MaxLen
        /\ Run(Request("migrate", key, comment, Undef, Undef, Undef))
        /\ touched' = IF last'.status = 204 THEN touched \cup {key} ELSE touched
        /\ UNCHANGED cyc

Next ==
    \/ WriteSecret
    \/ DeleteSecret
    \/ ManagerRotate
    \/ ManagerAppend
    \/ ManagerSplice
    \/ ManagerProbe
    \/ ManagerMigrate

Spec == Init /\ [][Next]_vars

(***************************************************************************)
(* Rotation alone: a managed list of one key, no saved value, and          *)
(* successive rotate requests that carry no search.                        *)
(***************************************************************************)
RotKey == "api_key_openai"

RotValues == {Str("a"), Str("b"), Str("c")}

RotEntries == {[comment |-> CommentP, value |-> v] : v \in RotValues}

RotLists == UNION {[1..n -> RotEntries] : n \in 1..MaxRotLen}

RotDoc(list) ==
    [n \in Names |-> IF n = "managed" THEN Obj([k \in {RotKey} |-> list]) ELSE Undef]

NoLast == Done(NoRequest, NoFile, Reply(Returned(INITIAL_STATE), 0, NoBody), FALSE)

RotInit ==
    /\ \E list \in RotLists :
          /\ disk = File(RotDoc(list))
          /\ cyc = [on |-> TRUE, list |-> list, n |-> 0]
    /\ last = NoLast
    /\ touched = {RotKey}
    /\ calls = NoCalls
    /\ order = <<>>
    /\ disk0 = disk
    /\ mon = [NoMon EXCEPT !.changed = TRUE, !.listed = {RotKey}]
    /\ allowKeysExposure = FALSE
    /\ client = NoClient

RotateNext ==
    /\ cyc.n < MaxRotCalls
    /\ Run(Request("rotate", RotKey, <<>>, Undef, Undef, Undef))
    /\ cyc' = [cyc EXCEPT !.n = @ + 1]
    /\ UNCHANGED touched

RotNext == RotateNext

SpecRotate == RotInit /\ [][RotNext]_vars

(***************************************************************************)
(* The store: every route, reading ones included, on a user whose secrets  *)
(* file is absent, holds a document, or does not parse, under either value *)
(* of the allowKeysExposure setting.                                       *)
(***************************************************************************)
\* A document that holds a second key: its saved value and a list of one entry.
OtherKey == "api_key_claude"

\* One of the keys that may be read while allowKeysExposure is false.
UrlKey == "libre_url"

TwoKeyDoc ==
    [n \in Names |->
        IF n = OtherKey THEN Str("b")
        ELSE IF n = UrlKey THEN Str("u")
        ELSE IF n = "managed"
             THEN Obj([k \in {OtherKey} |-> <<[comment |-> CommentP, value |-> Str("b")]>>])
             ELSE Undef]

StoreInitDisks == {NoFile, File(LegacyDoc), File(TwoKeyDoc), CorruptFile}

StoreInit ==
    /\ disk \in StoreInitDisks
    /\ last = Done(NoRequest, disk, Reply(Returned(INITIAL_STATE), 0, NoBody), FALSE)
    /\ touched = {k \in Keys : ~ParseThrows(disk) /\ getSecretState(disk)[k] # Undef}
    /\ cyc = [on |-> FALSE]
    /\ calls = NoCalls
    /\ order = <<>>
    /\ disk0 = disk
    /\ mon = [NoMon EXCEPT !.changed = disk.exists, !.listed = DOMAIN ManagedOf(disk)]
    /\ allowKeysExposure \in BOOLEAN
    /\ client = NoClient

ManagerState ==
    /\ RunRead(Request("state", "", <<>>, Undef, Undef, Undef))
    /\ UNCHANGED <<touched, cyc>>

ReadSecretFlags ==
    /\ RunRead(Request("read", "", <<>>, Undef, Undef, Undef))
    /\ UNCHANGED <<touched, cyc>>

ReadSecretValue ==
    \E key \in Keys \cup {UrlKey} :
        /\ RunRead(Request("find", key, <<>>, Undef, Undef, Undef))
        /\ UNCHANGED <<touched, cyc>>

ViewAllSecrets ==
    /\ RunRead(Request("view", "", <<>>, Undef, Undef, Undef))
    /\ UNCHANGED <<touched, cyc>>

StoreNext ==
    \/ WriteSecret
    \/ DeleteSecret
    \/ ManagerRotate
    \/ ManagerAppend
    \/ ManagerSplice
    \/ ManagerProbe
    \/ ManagerMigrate
    \/ ManagerState
    \/ ReadSecretFlags
    \/ ReadSecretValue
    \/ ViewAllSecrets

SpecStore == StoreInit /\ [][StoreNext]_vars

(***************************************************************************)
(* The flat operations with every key name they accept.  /write and        *)
(* deleteSecret take the key as sent, without looking it up in the catalog,*)
(* so the name of the `managed` property is a key name as any other.       *)
(***************************************************************************)
FlatKeys == Keys \cup {"managed"}

FlatInitDisks == {NoFile, File(LegacyDoc), File(TwoKeyDoc)}

FlatInit ==
    /\ disk \in FlatInitDisks
    /\ last = Done(NoRequest, disk, Reply(Returned(INITIAL_STATE), 0, NoBody), FALSE)
    /\ touched = {k \in Keys : getSecretState(disk)[k] # Undef}
    /\ cyc = [on |-> FALSE]
    /\ calls = NoCalls
    /\ order = <<>>
    /\ disk0 = disk
    /\ mon = [NoMon EXCEPT !.changed = disk.exists, !.listed = DOMAIN ManagedOf(disk)]
    /\ allowKeysExposure = FALSE
    /\ client = NoClient

WriteAnyKey ==
    \E key \in FlatKeys, value \in WriteValues :
        /\ Run(Request("write", key, <<>>, value, Undef, Undef))
        /\ touched' = touched \cup {key}
        /\ UNCHANGED cyc

DeleteAnyKey ==
    \E key \in FlatKeys :
        /\ Run(Request("delete", key, <<>>, Undef, Undef, Undef))
        /\ UNCHANGED <<touched, cyc>>

FlatNext ==
    \/ WriteAnyKey
    \/ DeleteAnyKey
    \/ ManagerRotate
    \/ ManagerAppend
    \/ ManagerSplice
    \/ ManagerProbe
    \/ ManagerMigrate

SpecFlat == FlatInit /\ [][FlatNext]_vars

(***************************************************************************)
(* The browser client.  One client acts alone on the file of one user.  A  *)
(* helper (rotateSecret, spliceSecret, migrateSecret) is one step: its     *)
(* request, which the server runs to completion or which gets no answer,   *)
(* and the refreshManagerState() that follows an ok response.  A command   *)
(* is the sequence of its helpers; client.pc is the next one.              *)
(***************************************************************************)
ClientKey == "api_key_openai"

ClientEntries ==
    { [comment |-> CommentP, value |-> Str("a")],
      [comment |-> <<"1", "p">>, value |-> Str("b")],
      [comment |-> CommentPadded, value |-> Str("a")] }

\* A file the server routes leave behind: a list for the key and any value.
ClientDoc(list, active) ==
    [n \in Names |->
        IF n = ClientKey THEN active
        ELSE IF n = "managed" THEN Obj([k \in {ClientKey} |-> list])
        ELSE Undef]

ClientDisks ==
    {NoFile, File(LegacyDoc)}
    \cup {File(ClientDoc(list, active)) :
              list \in UNION {[1..n -> ClientEntries] : n \in 0..MaxLen},
              active \in {Undef, Str("a"), Str("b")}}

\* Texts typed after /secret-rotate: "", "1", "p", "1p", "P ".
RotateTexts == {<<>>, <<"1">>, <<"p">>, <<"1", "p">>, <<"P", " ">>}

ClientInit ==
    /\ disk \in ClientDisks
    /\ last = Done(NoRequest, disk, Reply(Returned(INITIAL_STATE), 0, NoBody), FALSE)
    /\ touched = {}
    /\ cyc = [on |-> FALSE]
    /\ calls = NoCalls
    /\ order = <<>>
    /\ disk0 = disk
    /\ mon = NoMon
    /\ allowKeysExposure = FALSE
    /\ client = [NoClient EXCEPT !.pc = "load"]

\* The server is not reached.
ServerIdle ==
    UNCHANGED <<disk, last, touched, cyc, calls, order, disk0, mon, allowKeysExposure>>

\* The server runs the handler of a request of the client.
Delivered(r) ==
    /\ disk' = Commit(disk, r.out)
    /\ UNCHANGED <<last, touched, cyc, calls, order, disk0, mon, allowKeysExposure>>

\* response.ok
ResponseOk(r) == r.status \in {200, 204}

\* refreshManagerState: MANAGER_STATE = data and readSecretState(), or the
\* catch block, which leaves both as they were.
Refresh(c, d, fresh) ==
    IF fresh /\ ~ParseThrows(d)
    THEN [c EXCEPT !.state = readManagedSecretsState(d),
                   !.secret_state = {k \in DOMAIN readSecretState(d) : readSecretState(d)[k]}]
    ELSE [c EXCEPT !.failed = TRUE]

\* A helper: fetch, `if (!response.ok) throw`, refreshManagerState(), and the
\* catch block.  c is the client once the helper returned; sent tells whether
\* the request was answered, fresh whether the refresh was.
Call(req, c, sent, fresh) ==
    IF sent
    THEN LET r == Serve(req, disk) IN
         /\ Delivered(r)
         /\ client' = IF ResponseOk(r) THEN Refresh(c, Commit(disk, r.out), fresh) ELSE c
    ELSE /\ ServerIdle
         /\ client' = [c EXCEPT !.failed = TRUE]

\* The client with a new command: what it typed and the file it began on.
Command(cmd, text, index, value) ==
    [client EXCEPT !.cmd = cmd, !.text = text, !.index = index, !.value = value,
                   !.start = disk, !.sent = Undef, !.failed = FALSE,
                   !.selected = FALSE, !.then = "idle", !.count = @ + 1,
                   !.listed = (ClientKey \in DOMAIN client.state)]

\* MANAGER_STATE[key], an array
StateList(c, key) == IF key \in DOMAIN c.state THEN c.state[key] ELSE <<>>

\* MANAGER_STATE[key].findIndex(x => x.selected)
FindSelected(list) ==
    IF \E i \in 1..Len(list) : list[i].selected
    THEN (CHOOSE i \in 1..Len(list) :
              list[i].selected /\ \A j \in 1..(i - 1) : ~list[j].selected) - 1
    ELSE NotFound

\* initExtension: the first refreshManagerState()
ClientLoad ==
    \E fresh \in BOOLEAN :
        /\ client.pc = "load"
        /\ client' = [Refresh(client, disk, fresh) EXCEPT !.pc = "idle"]
        /\ ServerIdle

\* secret-rotate, ensureKeyManaged up to the popup: probeSecret when the
\* client holds a flag and a non-empty list for the key.
RotateProbe ==
    \E text \in RotateTexts, sent \in BOOLEAN :
        /\ client.pc = "idle"
        /\ client.count < MaxCommands
        /\ LET c == Command("rotate", text, -1, Undef) IN
           IF ClientKey \in client.secret_state /\ Len(StateList(client, ClientKey)) > 0
           THEN LET r == Serve(Request("probe", ClientKey, <<>>, Undef, Undef, Undef), disk)
                    isKeyManaged == sent /\ ResponseOk(r) /\ r.body.index >= 0
                IN /\ client' = [c EXCEPT !.pc = IF isKeyManaged THEN "rotate" ELSE "popup",
                                          !.failed = ~sent]
                   /\ ServerIdle
           ELSE /\ client' = [c EXCEPT !.pc = "popup"]
                /\ ServerIdle

\* ensureKeyManaged, the popup: Skip, or Migrate with a comment.
RotatePopup ==
    /\ client.pc = "popup"
    /\ \/ /\ client' = [client EXCEPT !.pc = "rotate"]
          /\ ServerIdle
       \/ \E comment \in MigrateComments, sent \in BOOLEAN, fresh \in BOOLEAN :
              /\ Len(ListOf(disk, ClientKey)) <= MaxLen
              /\ Call(Request("migrate", ClientKey, comment, Undef, Undef, Undef),
                      [client EXCEPT !.pc = "rotate"], sent, fresh)

\* secret-rotate, after ensureKeyManaged: the search and rotateSecret.
RotateSend ==
    \E sent \in BOOLEAN, fresh \in BOOLEAN :
        /\ client.pc = "rotate"
        /\ LET search == JsonValue(ResolveSearch(client.text)) IN
           Call(Request("rotate", ClientKey, <<>>, Undef, search, Undef),
                [client EXCEPT !.pc = "idle", !.sent = search], sent, fresh)

\* onKeyClearClick: the dialog opens for a key with a non-empty list.
DialogOpens == Len(StateList(client, ClientKey)) > 0

\* Clear Current: spliceSecret(key, MANAGER_STATE[key].findIndex(x => x.selected))
ClearCurrent ==
    \E sent \in BOOLEAN, fresh \in BOOLEAN :
        /\ client.pc = "idle"
        /\ client.count < MaxCommands
        /\ DialogOpens
        /\ LET index == FindSelected(StateList(client, ClientKey))
               c == Command("clear", <<>>, index, Undef)
           IN Call(Request("splice", ClientKey, <<>>, Undef, Undef, Num(index)),
                   [c EXCEPT !.pc = "rotate_next", !.selected = (index # NotFound)],
                   sent, fresh)

\* secret-remove: isSelected, then spliceSecret(key, Number(index))
SecretRemove ==
    \E index \in 0..(MaxLen - 1), sent \in BOOLEAN, fresh \in BOOLEAN :
        /\ client.pc = "idle"
        /\ client.count < MaxCommands
        /\ LET list == StateList(client, ClientKey)
               isSelected == index < Len(list) /\ list[index + 1].selected
               c == Command("remove", <<>>, index, Undef)
           IN Call(Request("splice", ClientKey, <<>>, Undef, Undef, Num(index)),
                   [c EXCEPT !.pc = IF isSelected THEN "rotate_next" ELSE "idle",
                             !.selected = isSelected],
                   sent, fresh)

\* rotateSecret(key, ''), after the splice of the selected entry
RotateAway ==
    \E sent \in BOOLEAN, fresh \in BOOLEAN :
        /\ client.pc = "rotate_next"
        /\ Call(Request("rotate", ClientKey, <<>>, Undef, Str(<<>>), Undef),
                [client EXCEPT !.pc = "idle"], sent, fresh)

\* writeSecret of '../../secrets.js': POST /api/secrets/write; on an ok
\* response the flag of the key is set and SECRET_WRITTEN is emitted, its
\* handlers awaited.
ClientWriteSecret(c, value, then, sent) ==
    IF sent
    THEN LET r == Serve(Request("write", ClientKey, <<>>, value, Undef, Undef), disk) IN
         /\ Delivered(r)
         /\ client' =
                IF ResponseOk(r)
                THEN [c EXCEPT !.pc = "written", !.then = then,
                               !.secret_state =
                                   IF Truthy(value) THEN @ \cup {ClientKey}
                                   ELSE @ \ {ClientKey}]
                ELSE [c EXCEPT !.pc = then, !.failed = TRUE]
    ELSE /\ ServerIdle
         /\ client' = [c EXCEPT !.pc = then, !.failed = TRUE]

\* A value, "a" or "b", typed into the key field and saved.
ClientWrite ==
    \E value \in {Str("a"), Str("b")}, sent \in BOOLEAN :
        /\ client.pc = "idle"
        /\ client.count < MaxCommands
        /\ Len(ListOf(disk, ClientKey)) <= MaxLen
        /\ ClientWriteSecret(Command("write", <<>>, -1, value), value, "idle", sent)

\* Variant: the handler acts only for a key whose list holds an entry.
HandlerMigrates_NonEmpty(c, key) == Len(StateList(c, key)) > 0

\* if (MANAGER_STATE[key]) : an array, empty or not, is truthy
HandlerMigrates(c, key) == key \in DOMAIN c.state

\* The SECRET_WRITTEN handler: migrateSecret, and on true a second
\* refreshManagerState().
SecretWritten ==
    /\ client.pc = "written"
    /\ IF HandlerMigrates(client, ClientKey)
       THEN \E sent \in BOOLEAN, fresh \in BOOLEAN, again \in BOOLEAN :
                LET req == Request("migrate", ClientKey, CommentQ, Undef, Undef, Undef)
                    r == Serve(req, disk)
                    c == [client EXCEPT !.pc = client.then]
                IN IF sent /\ ResponseOk(r)
                   THEN /\ Delivered(r)
                        /\ client' = [Refresh(c, Commit(disk, r.out), fresh \/ again)
                                          EXCEPT !.failed = c.failed \/ ~fresh \/ ~again]
                   ELSE Call(req, c, sent, fresh)
       ELSE /\ client' = [client EXCEPT !.pc = client.then]
            /\ ServerIdle

\* Clear All: writeSecret(key, '')
ClearAll ==
    \E sent \in BOOLEAN :
        /\ client.pc = "idle"
        /\ client.count < MaxCommands
        /\ DialogOpens
        /\ Len(ListOf(disk, ClientKey)) <= MaxLen
        /\ ClientWriteSecret(Command("clear_all", <<>>, -1, Str("")), Str(""), "loop", sent)

\* while (MANAGER_STATE[key].length > 0) { await spliceSecret(key, 0); }
ClearAllSplice ==
    \E sent \in BOOLEAN, fresh \in BOOLEAN :
        /\ client.pc = "loop"
        /\ Len(StateList(client, ClientKey)) > 0
        /\ Call(Request("splice", ClientKey, <<>>, Undef, Undef, Num(0)),
                [client EXCEPT !.beat = 1 - @], sent, fresh)

\* The loop condition is false (or MANAGER_STATE[key] is undefined and the
\* dialog's promise rejects): the command is over.
ClearAllEnds ==
    /\ client.pc = "loop"
    /\ Len(StateList(client, ClientKey)) = 0
    /\ client' = [client EXCEPT !.pc = "idle"]
    /\ ServerIdle

ClientStep ==
    \/ ClientLoad
    \/ RotateProbe
    \/ RotatePopup
    \/ RotateSend
    \/ ClearCurrent
    \/ SecretRemove
    \/ RotateAway
    \/ ClientWrite
    \/ SecretWritten
    \/ ClearAll
    \/ ClearAllSplice
    \/ ClearAllEnds

SpecClient == ClientInit /\ [][ClientStep]_vars

\* The browser runs a continuation that is ready: a command in progress
\* takes its next step.
SpecClientLive == SpecClient /\ WF_vars(ClientStep)

(***************************************************************************)
(* Concurrent requests.  NCalls requests are in flight at once.  A handler *)
(* is a synchronous callback (readFileSync, writeFileAtomicSync, no await),*)
(* so the event loop starts one only when no other handler is running.     *)
(* Begin is the handler's first getSecretState, Finish the rest of it.     *)
(***************************************************************************)
CallIds == 1..NCalls

ConcKey == "api_key_openai"

ConcRequests ==
    { Request("write", ConcKey, <<>>, Str("a"), Undef, Undef),
      Request("delete", ConcKey, <<>>, Undef, Undef, Undef),
      Request("append", ConcKey, CommentP, Str("a"), Undef, Undef),
      Request("append", ConcKey, CommentPadded, Str("b"), Undef, Undef),
      Request("append", ConcKey, CommentQ, Str("a"), Undef, Undef),
      Request("splice", ConcKey, <<>>, Undef, Undef, Num(0)),
      Request("rotate", ConcKey, <<>>, Undef, Undef, Undef),
      Request("migrate", ConcKey, CommentEmpty, Undef, Undef, Undef) }

\* A document the server reaches: a saved value and one managed entry.
SeededDoc ==
    [n \in Names |->
        IF n = ConcKey THEN Str("b")
        ELSE IF n = "managed"
             THEN Obj([k \in {ConcKey} |-> <<[comment |-> CommentEmpty, value |-> Str("a")]>>])
             ELSE Undef]

ConcInitDisks == {NoFile, File(SeededDoc)}

Pending(req) ==
    [req |-> req, pc |-> "pending", secrets |-> INITIAL_STATE, status |-> 0,
     seen |-> NoFile, post |-> NoFile]

ConcInit ==
    /\ disk \in ConcInitDisks
    /\ disk0 = disk
    /\ calls \in [CallIds -> {Pending(r) : r \in ConcRequests}]
    /\ order = <<>>
    /\ last = NoLast
    /\ touched = {}
    /\ cyc = [on |-> FALSE]
    /\ mon = [NoMon EXCEPT !.changed = disk.exists, !.listed = DOMAIN ManagedOf(disk)]
    /\ allowKeysExposure = FALSE
    /\ client = NoClient

\* Variant: handlers that yield between their load and their save.
EventLoopIdle_Async == TRUE

\* No handler is between its first statement and its response.
EventLoopIdle == \A j \in CallIds : calls[j].pc # "running"

Begin(i) ==
    /\ calls[i].pc = "pending"
    /\ EventLoopIdle
    /\ calls' = [calls EXCEPT ![i].pc = "running", ![i].secrets = getSecretState(disk)]
    /\ UNCHANGED <<disk, order, disk0, last, touched, cyc, mon, allowKeysExposure, client>>

Finish(i) ==
    /\ calls[i].pc = "running"
    /\ LET r == Handle(calls[i].req, calls[i].secrets, disk) IN
       /\ disk' = Commit(disk, r.out)
       /\ calls' = [calls EXCEPT ![i].pc = "done", ![i].status = r.status,
                                 ![i].seen = disk, ![i].post = Commit(disk, r.out)]
    /\ order' = Append(order, i)
    /\ UNCHANGED <<disk0, last, touched, cyc, mon, allowKeysExposure, client>>

ConcNext == \E i \in CallIds : Begin(i) \/ Finish(i)

ConcSpec == ConcInit /\ [][ConcNext]_vars

(***************************************************************************)
(* Properties.                                                             *)
(***************************************************************************)
\* The serial execution of the finished calls, in the order they finished.
RECURSIVE SerialDisk(_, _)
SerialDisk(d, ids) ==
    IF ids = <<>> THEN d
    ELSE SerialDisk(Commit(d, Serve(calls[Head(ids)].req, d).out), Tail(ids))

\* The status every finished call gets in that serial execution.
RECURSIVE SerialStatuses(_, _)
SerialStatuses(d, ids) ==
    IF ids = <<>> THEN TRUE
    ELSE /\ calls[Head(ids)].status = Serve(calls[Head(ids)].req, d).status
         /\ SerialStatuses(Commit(d, Serve(calls[Head(ids)].req, d).out), Tail(ids))

\* C1: of the mutating requests issued concurrently against one store, at most
\* one load-compute-save cycle is in flight at a time, and the persisted
\* document and every response are those of running the finished requests one
\* after another in the order they finished: no finished request's update is lost.
C1_Serialized ==
    /\ Cardinality({i \in DOMAIN calls : calls[i].pc = "running"}) <= 1
    /\ disk = SerialDisk(disk0, order)
    /\ SerialStatuses(disk0, order)

\* Two requests that both change the list have finished, and both entries are there.
C1_Witness ==
    /\ Len(order) = 2
    /\ calls[order[1]].req.op = "append"
    /\ calls[order[2]].req.op = "append"
    /\ Len(ListOf(disk, ConcKey)) = Len(ListOf(disk0, ConcKey)) + 2

AllAppends ==
    /\ \A i \in DOMAIN calls : calls[i].req.op = "append" /\ calls[i].req.key = ConcKey
    /\ \A i, j \in DOMAIN calls : i # j => calls[i].req.comment # calls[j].req.comment

AllDone == calls # NoCalls /\ \A i \in DOMAIN calls : calls[i].pc = "done"

EntryOf(req) == [comment |-> req.comment, value |-> req.value]

\* C2: when all the concurrent requests are appends to one key with distinct
\* comments, every one is acknowledged, and the list afterwards is the list
\* before followed by exactly one entry per request.
C2_ConcurrentAppends ==
    (AllAppends /\ AllDone) =>
        LET old == ListOf(disk0, ConcKey)
            new == ListOf(disk, ConcKey)
        IN /\ \A i \in DOMAIN calls : calls[i].status = 204
           /\ Len(new) = Len(old) + Cardinality(DOMAIN calls)
           /\ SubSeq(new, 1, Len(old)) = old
           /\ \A i \in DOMAIN calls :
                 Cardinality({j \in (Len(old) + 1)..Len(new) :
                                 new[j] = EntryOf(calls[i].req)}) = 1

\* All requests are appends, all have finished, and the list was not empty before.
C2_Witness ==
    /\ AllAppends
    /\ AllDone
    /\ Len(ListOf(disk0, ConcKey)) = 1
    /\ Len(ListOf(disk, ConcKey)) = 1 + Cardinality(DOMAIN calls)

\* C3: from a list of N entries and no saved value, the n-th successive rotate
\* without a search leaves the value of entry (n - 1) mod N as the saved value.
C3_Cyclic ==
    (cyc.on /\ cyc.n >= 1) =>
        readSecret(disk, RotKey) = cyc.list[((cyc.n - 1) % Len(cyc.list)) + 1].value

\* What the last request was about: its key, and the list and the saved value
\* of that key before it ran.
LastKey == last.req.key
LastList == ListOf(last.pre, LastKey)
LastActive == readSecret(last.pre, LastKey)
LastIs(op) == last.req.op = op

\* The 0-based positions of a list whose entry holds value v.
PositionsOf(list, v) == {i \in 0..(Len(list) - 1) : list[i + 1].value = v}

Lowest(S) == CHOOSE i \in S : \A j \in S : i <= j

\* Two texts are the same once trimmed and compared without case.
SameText(a, b) == ToLowerCase(Trim(a)) = ToLowerCase(Trim(b))

\* The 0-based positions of a list whose comment is the search text.
CommentPositions(list, text) ==
    {i \in 0..(Len(list) - 1) : SameText(list[i + 1].comment, text)}

\* The search selects nothing: it is absent or empty, a text that is the
\* comment of no entry, or an integer outside the list.
SelectsNothing(list, search) ==
    \/ search = Undef
    \/ search.t = "str" /\ search.s = <<>>
    \/ search.t = "str" /\ search.s # <<>> /\ CommentPositions(list, search.s) = {}
    \/ search.t = "num" /\ (search.n < 0 \/ search.n >= Len(list))

\* C4: a rotate whose search selects nothing, on a non-empty list, is
\* acknowledged and saves the value of the entry after the one probe reports
\* for the saved value: the first entry when probe reports the last entry or none.
C4_RotateNext ==
    (LastIs("rotate") /\ LastList # <<>> /\ SelectsNothing(LastList, last.req.search)) =>
        LET j == probeManagedKey(last.pre, LastKey).index
            next == IF j # -1 /\ j + 1 < Len(LastList) THEN j + 1 ELSE 0
        IN /\ last.status = 204
           /\ readSecret(disk, LastKey) = LastList[next + 1].value

\* A rotate with a comment that matches no entry wrapped from the last entry to the first.
C4_Witness ==
    /\ LastIs("rotate")
    /\ Len(LastList) = 2
    /\ last.req.search = Str(<<"z">>)
    /\ probeManagedKey(last.pre, LastKey).index = 1
    /\ LastList[1].value # LastList[2].value
    /\ readSecret(disk, LastKey) = LastList[1].value

\* C5: a rotate whose search is an integer position of the list saves the
\* value of the entry at that position, whatever the saved value and the comments.
C5_RotateByIndex ==
    (/\ LastIs("rotate")
     /\ last.req.search.t = "num"
     /\ last.req.search.n >= 0
     /\ last.req.search.n < Len(LastList)) =>
        /\ last.status = 204
        /\ readSecret(disk, LastKey) = LastList[last.req.search.n + 1].value

\* A rotate to position 0 while the saved value was that of position 0: the
\* cyclic next entry would have been the one at position 1.
C5_Witness ==
    /\ LastIs("rotate")
    /\ last.req.search = Num(0)
    /\ Len(LastList) = 2
    /\ LastList[1].value # LastList[2].value
    /\ LastActive = LastList[1].value
    /\ readSecret(disk, LastKey) = LastList[1].value

\* C6, as claimed: a rotate whose search is a non-empty string saves the value
\* of the first entry whose comment is that text.
C6_AnyNonEmptyString ==
    (/\ LastIs("rotate")
     /\ last.req.search.t = "str"
     /\ last.req.search.s # <<>>
     /\ CommentPositions(LastList, last.req.search.s) # {}) =>
        readSecret(disk, LastKey) =
            LastList[Lowest(CommentPositions(LastList, last.req.search.s)) + 1].value

\* C6, amended: a rotate whose search is a string with something other than
\* white space in it saves the value of the first entry whose comment is that text.
C6_RotateByComment ==
    (/\ LastIs("rotate")
     /\ last.req.search.t = "str"
     /\ Trim(last.req.search.s) # <<>>
     /\ CommentPositions(LastList, last.req.search.s) # {}) =>
        /\ last.status = 204
        /\ readSecret(disk, LastKey) =
              LastList[Lowest(CommentPositions(LastList, last.req.search.s)) + 1].value

\* The search "P " is the comment of both entries, "p" and " P "; the saved value
\* was the second entry's and is now the first entry's.
C6_Witness ==
    /\ LastIs("rotate")
    /\ last.req.search = Str(<<"P", " ">>)
    /\ CommentPositions(LastList, last.req.search.s) = {0, 1}
    /\ LastList[1].comment # LastList[2].comment
    /\ LastList[1].value # LastList[2].value
    /\ LastActive = LastList[2].value
    /\ readSecret(disk, LastKey) = LastList[1].value

\* C7: a rotate on a key whose managed list is absent or empty changes nothing
\* in the file, whatever the search, and is acknowledged.
C7_RotateNoOp ==
    (LastIs("rotate") /\ LastList = <<>>) =>
        /\ disk = last.pre
        /\ last.status = 204

\* A rotate by index ran on a list that is there and is empty.
C7_Witness ==
    /\ LastIs("rotate")
    /\ LastKey \in DOMAIN ManagedOf(last.pre)
    /\ LastList = <<>>
    /\ last.req.search = Num(0)
    /\ LastActive # Undef

\* What a finished migrate call did, against the file it found when it finished.
MigrateCorrect(c) ==
    LET key == c.req.key
        before == c.seen
        active == readSecret(before, key)
        old == ListOf(before, key)
    IN IF PositionsOf(old, active) # {}
       THEN /\ c.status = 409
            /\ c.post = before
       ELSE /\ c.status = 204
            /\ ListOf(c.post, key) = Append(old, [comment |-> c.req.comment, value |-> active])
            /\ readSecret(c.post, key) = active

\* C8: a migrate answers Conflict and leaves the file as it is when the saved
\* value is the value of an entry of the list; otherwise it adds one entry, the
\* comment with the saved value, at the end of the list and leaves the saved
\* value.  The state its probe examined is the state it appended to: no other
\* request changed the file in between.
C8_MigrateAtomic ==
    \A i \in DOMAIN calls :
        (calls[i].req.op = "migrate" /\ calls[i].pc = "done") =>
            /\ getSecretState(calls[i].seen) = calls[i].secrets
            /\ MigrateCorrect(calls[i])

\* Two concurrent migrates of one key: one appended the saved value, the other got Conflict.
C8_Witness ==
    /\ Len(order) = 2
    /\ calls[order[1]].req.op = "migrate"
    /\ calls[order[2]].req.op = "migrate"
    /\ calls[order[1]].status = 204
    /\ calls[order[2]].status = 409
    /\ Len(ListOf(disk, ConcKey)) = Len(ListOf(disk0, ConcKey)) + 1

\* C9: a migrate that follows an acknowledged migrate of the same key, with
\* nothing in between, answers Conflict, and the list is then one entry longer
\* than it was before the first of the two.
C9_MigrateTwice ==
    [][(/\ last.req.op = "migrate"
        /\ last.status = 204
        /\ last'.req.op = "migrate"
        /\ last'.req.key = last.req.key) =>
           (/\ last'.status = 409
            /\ disk' = disk
            /\ Len(ListOf(disk', last.req.key)) = Len(ListOf(last.pre, last.req.key)) + 1)]_vars

\* The second of two migrates of a key that has no saved value got Conflict.
C9_Witness ==
    /\ LastIs("migrate")
    /\ last.again
    /\ last.status = 409
    /\ LastActive = Undef
    /\ Len(LastList) = 1

\* C10: probe never changes the file; it reports the lowest position whose
\* value is the saved value, and {false, -1} when the list is absent or empty
\* or holds no such entry, as for every key never written or appended.
C10_Probe ==
    LastIs("probe") =>
        LET hits == PositionsOf(LastList, LastActive) IN
        /\ disk = last.pre
        /\ last.status = 200
        /\ last.body = IF hits = {} THEN ProbeResult(FALSE, -1)
                       ELSE ProbeResult(TRUE, Lowest(hits))
        /\ LastKey \notin touched => last.body = ProbeResult(FALSE, -1)

\* A probe found the saved value at two positions and reported the lower one.
C10_Witness ==
    /\ LastIs("probe")
    /\ PositionsOf(LastList, LastActive) = {0, 1}
    /\ last.body = ProbeResult(TRUE, 0)

\* C11, as claimed: a probe served right after write(K, v) and append(K, c, v)
\* reports {true, i} with i the position of the appended entry, the last of
\* the list, whatever the list held before.
C11_ProbeReportsAppended ==
    mon.wap.n = 3 => last.body = ProbeResult(TRUE, Len(LastList) - 1)

\* The list the append of the sequence found: the probed list without its last entry.
WapPriorList == SubSeq(LastList, 1, Len(LastList) - 1)

\* C11, amended: a probe served right after write(K, v) and append(K, c, v)
\* reports true with the lowest position whose value is v; that is the
\* position of the appended entry, the last one, exactly when no entry the
\* list held before has the value v.
C11_ProbeAfterWriteAppend ==
    mon.wap.n = 3 =>
        /\ LastIs("probe")
        /\ LastList # <<>>
        /\ LastList[Len(LastList)].value = mon.wap.value
        /\ last.body.result = TRUE
        /\ last.body.index = Lowest(PositionsOf(LastList, mon.wap.value))
        /\ (PositionsOf(WapPriorList, mon.wap.value) = {}
               <=> last.body.index = Len(LastList) - 1)

\* The sequence ran on a list that held one entry with another value: the
\* probe reported position 1, the appended entry.
C11_Witness ==
    /\ mon.wap.n = 3
    /\ Len(LastList) = 2
    /\ LastList[1].value # mon.wap.value
    /\ last.body = ProbeResult(TRUE, 1)

\* The saved value of every catalog key is the same in two files.
SameActives(d1, d2) == \A k \in SECRET_KEYS : readSecret(d1, k) = readSecret(d2, k)

\* The managed list of every key but one is the same in two files.
SameOtherLists(d1, d2, key) ==
    /\ DOMAIN ManagedOf(d1) \ {key} = DOMAIN ManagedOf(d2) \ {key}
    /\ \A k \in DOMAIN ManagedOf(d1) \ {key} : ManagedOf(d1)[k] = ManagedOf(d2)[k]

\* C12: an append on a document that parses is acknowledged; the list of its
\* key afterwards is the list before (empty when there was none) followed by
\* {comment, value}, also when an entry already held that value; every saved
\* value and the managed list of every other key are as before.
C12_AppendFrame ==
    (LastIs("append") /\ ~ParseThrows(last.pre)) =>
        /\ last.status = 204
        /\ LastKey \in DOMAIN ManagedOf(disk)
        /\ ManagedOf(disk)[LastKey] = Append(LastList, EntryOf(last.req))
        /\ SameActives(last.pre, disk)
        /\ SameOtherLists(last.pre, disk, LastKey)

\* An append of a value the list already held, in a document where another
\* key has a saved value and a list, and the key itself no saved value.
C12_Witness ==
    /\ LastIs("append")
    /\ ~ParseThrows(last.pre)
    /\ Len(LastList) = 1
    /\ LastList[1].value = last.req.value
    /\ LastActive = Undef
    /\ ListOf(disk, OtherKey) # <<>>
    /\ readSecret(disk, OtherKey) # Undef
    /\ Len(ListOf(disk, LastKey)) = 2

\* The last request is a splice whose index is an integer position of the list.
SpliceInRange ==
    /\ LastIs("splice")
    /\ last.req.index.t = "num"
    /\ last.req.index.n >= 0
    /\ last.req.index.n < Len(LastList)

\* A list without the entry at a 0-based position.
Without(list, n) == SubSeq(list, 1, n) \o SubSeq(list, n + 2, Len(list))

C14_SpliceNoOp ==
    (LastIs("splice") /\ ~ParseThrows(last.pre) /\ ~SpliceInRange) =>
        /\ last.status = 204
        /\ disk = last.pre

\* C15: the manager state of a document that parses has exactly the keys of
\* `managed`, none of them a key no append or migrate ever named; the list of a
\* key has one element per entry, in the entries' order, made of the entry's
\* comment and of selected, which tells whether the entry's value is the saved
\* value of the key, and of nothing else.
C15_ManagerState ==
    (LastIs("state") /\ ~ParseThrows(last.pre)) =>
        /\ last.status = 200
        /\ disk = last.pre
        /\ DOMAIN last.body = DOMAIN ManagedOf(disk)
        /\ \A k \in SECRET_KEYS \ mon.listed : k \notin DOMAIN last.body
        /\ \A k \in DOMAIN last.body :
              /\ Len(last.body[k]) = Len(ListOf(disk, k))
              /\ \A i \in 1..Len(last.body[k]) :
                    /\ DOMAIN last.body[k][i] = {"comment", "selected"}
                    /\ last.body[k][i].comment = ListOf(disk, k)[i].comment
                    /\ last.body[k][i].selected =
                          (ListOf(disk, k)[i].value = readSecret(disk, k))

\* The state of a document with the lists of two keys: one of two entries with
\* different comments, the second of which holds the saved value.
C15_Witness ==
    /\ LastIs("state")
    /\ DOMAIN last.body = {"api_key_openai", OtherKey}
    /\ Len(last.body["api_key_openai"]) = 2
    /\ last.body["api_key_openai"][1].comment # last.body["api_key_openai"][2].comment
    /\ ~last.body["api_key_openai"][1].selected
    /\ last.body["api_key_openai"][2].selected
    /\ last.body[OtherKey][1].selected

\* The key is Managed in a file: probe reports true.
Managed(d, key) == ~ParseThrows(d) /\ probeManagedKey(d, key).result

\* C16: after an acknowledged migrate the key is Managed; after a rotate on a
\* list that is not empty the key is Managed; an append turns no key from
\* Managed to not Managed; and when a request turned a key from Managed to
\* not Managed, it was a splice, a write or a delete of that key.
C16_KeyStateMachine ==
    /\ (LastIs("migrate") /\ last.status = 204) => Managed(disk, LastKey)
    /\ (LastIs("rotate") /\ LastList # <<>>) => Managed(disk, LastKey)
    /\ LastIs("append") =>
          \A k \in SECRET_KEYS : Managed(last.pre, k) => Managed(disk, k)
    /\ \A k \in SECRET_KEYS :
          (Managed(last.pre, k) /\ ~Managed(disk, k)) =>
              /\ last.req.op \in {"splice", "write", "delete"}
              /\ LastKey = k

\* A rotate on a list of two entries brought the key back to Managed: a write
\* had saved a value that no entry holds.
C16_Witness ==
    /\ LastIs("rotate")
    /\ Len(LastList) = 2
    /\ LastActive # Undef
    /\ ~Managed(last.pre, LastKey)
    /\ Managed(disk, LastKey)

\* The entries of the scenario: {"q", "a"} and {" P ", "b"}.
ScenarioFirst == [comment |-> CommentQ, value |-> Str("a")]
ScenarioSecond == [comment |-> CommentPadded, value |-> Str("b")]

\* C17: for a user with no secrets file, write(K, "a") then migrate(K, "q") is
\* acknowledged and leaves the list [{q, a}] with "a" still saved; then
\* append(K, " P ", "b") leaves the list [{q, a}, {" P ", b}] with "a" still
\* saved; then rotate(K, "") saves "b"; then probe(K) answers {true, 1}.
C17_Scenario ==
    /\ mon.scen >= 1 => (last.status \in {200, 204} /\ ~ParseThrows(disk))
    /\ mon.scen = 1 =>
          (readSecret(disk, ScenarioKey) = Str("a") /\ ListOf(disk, ScenarioKey) = <<>>)
    /\ mon.scen = 2 =>
          /\ last.status = 204
          /\ ListOf(disk, ScenarioKey) = <<ScenarioFirst>>
          /\ readSecret(disk, ScenarioKey) = Str("a")
    /\ mon.scen = 3 =>
          /\ ListOf(disk, ScenarioKey) = <<ScenarioFirst, ScenarioSecond>>
          /\ readSecret(disk, ScenarioKey) = Str("a")
    /\ mon.scen = 4 =>
          /\ ListOf(disk, ScenarioKey) = <<ScenarioFirst, ScenarioSecond>>
          /\ readSecret(disk, ScenarioKey) = Str("b")
    /\ mon.scen = 5 =>
          /\ last.body = ProbeResult(TRUE, 1)
          /\ readSecret(disk, ScenarioKey) = Str("b")

\* The five requests of the scenario were served, the probe last.
C17_Witness ==
    /\ mon.scen = 5
    /\ LastIs("probe")
    /\ ~disk0.exists
    /\ last.body = ProbeResult(TRUE, 1)

\* The response a request gets on a file, under the current configuration.
AnswerOn(req, d) ==
    LET r == IF req.op \in {"state", "read", "view", "find"}
             THEN ServeRead(req, d, allowKeysExposure)
             ELSE Serve(req, d)
    IN [status |-> r.status, body |-> r.body]

LastAnswer == [status |-> last.status, body |-> last.body]

TellsApart(a, b) == a.status # b.status \/ a.body # b.body

\* C18, as claimed: on a secrets file that does not parse, every request that
\* is not turned down as unauthorized leaves the file as it is and gets an
\* answer that differs from the answer the same request gets without a file
\* and from the one it gets on the empty document.
C18_CorruptionSurfaced ==
    (ParseThrows(last.pre) /\ last.req.op # "none" /\ last.status # 403) =>
        /\ disk = last.pre
        /\ last.status >= 400
        /\ TellsApart(LastAnswer, AnswerOn(last.req, NoFile))
        /\ TellsApart(LastAnswer, AnswerOn(last.req, File(INITIAL_STATE)))

\* C19, as claimed: without a secrets file a request that only reads creates
\* none; with the exposure setting on, the view of all secrets answers not
\* found exactly when no request served so far changed the document, and
\* otherwise answers the whole document, managed values included.
C19_NotFound ==
    /\ (~last.pre.exists /\ last.req.op \in {"probe", "state", "read", "view", "find"}) =>
          ~disk.exists
    /\ (LastIs("view") /\ allowKeysExposure /\ ~ParseThrows(last.pre)) =>
          /\ disk = last.pre
          /\ last.status = 404 <=> ~mon.changed
          /\ last.status # 404 =>
                (last.status = 200 /\ last.body = Obj(getSecretState(disk)))

\* C20, as claimed: an acknowledged write leaves its value as the value read
\* for the key, and only a write, a delete or a rotate changes what is read
\* for a key; after a delete the key reads as absent; without a file every key
\* reads as absent; and a delete of a key that has no value leaves the file,
\* or its absence, as it was.
C20_Ledger ==
    ~ParseThrows(last.pre) =>
        /\ (LastIs("write") /\ last.status = 204) =>
              readSecret(disk, LastKey) = last.req.value
        /\ last.req.op \notin {"write", "delete", "rotate"} => SameActives(last.pre, disk)
        /\ LastIs("delete") => readSecret(disk, LastKey) = Undef
        /\ ~disk.exists => \A k \in SECRET_KEYS : readSecret(disk, k) = Undef
        /\ (LastIs("delete") /\ LastActive = Undef) => disk = last.pre

\* C21, as claimed: whatever the secrets file holds, and also when there is
\* none, the answer of /read has one entry per catalog key, true exactly for
\* the keys whose saved value is a non-empty string, and no entry for managed.
C21_ReadSecretFlags ==
    (LastIs("read") /\ ~ParseThrows(last.pre)) =>
        /\ last.status = 200
        /\ disk = last.pre
        /\ DOMAIN last.body = SECRET_KEYS
        /\ "managed" \notin DOMAIN last.body
        /\ \A k \in DOMAIN last.body :
              /\ last.body[k] \in BOOLEAN
              /\ last.body[k] <=> readSecret(last.pre, k) \notin {Undef, Str("")}

\* The status /view gives when there is no secrets file to view.
NotFoundStatus == ViewHandler(NoFile, TRUE).status

\* C22: /find answers a value only when allowKeysExposure is set or the key is
\* one of the exportable keys, and the value is the saved one; /view answers
\* the document only when allowKeysExposure is set.  Every other /find and
\* /view is turned down with 403 whatever the file is, unparsable included,
\* and 403 is not the status of not found.
C22_RawValueGating ==
    /\ LastIs("find") =>
          /\ disk = last.pre
          /\ last.status = 200 =>
                /\ allowKeysExposure \/ LastKey \in EXPORTABLE_KEYS
                /\ last.body = [value |-> readSecret(last.pre, LastKey)]
          /\ (~allowKeysExposure /\ LastKey \notin EXPORTABLE_KEYS) =>
                (last.status = 403 /\ last.status # NotFoundStatus)
    /\ LastIs("view") =>
          /\ disk = last.pre
          /\ last.status = 200 =>
                (allowKeysExposure /\ last.body = Obj(getSecretState(last.pre)))
          /\ ~allowKeysExposure => (last.status = 403 /\ last.status # NotFoundStatus)

\* With allowKeysExposure off, /find of a key that holds a value was turned down.
C22_Witness ==
    /\ LastIs("find")
    /\ ~allowKeysExposure
    /\ ~ParseThrows(last.pre)
    /\ LastKey = "api_key_openai"
    /\ Truthy(readSecret(last.pre, LastKey))
    /\ last.status = 403

\* The managed list of every key is the same in two files.
SameLists(d1, d2) ==
    /\ DOMAIN ManagedOf(d1) = DOMAIN ManagedOf(d2)
    /\ \A k \in DOMAIN ManagedOf(d1) : ManagedOf(d1)[k] = ManagedOf(d2)[k]

\* C23, as claimed: a write or a delete, whatever key name it carries, leaves
\* the managed list of every key and the saved value of every other key as
\* they were.
C23_FlatFrame ==
    (LastIs("write") \/ LastIs("delete")) =>
        /\ last.status = 204
        /\ SameLists(last.pre, disk)
        /\ \A k \in SECRET_KEYS \ {LastKey} : readSecret(disk, k) = readSecret(last.pre, k)

\* C24: a rotate on a list that is not empty leaves the managed list of every
\* key, contents and order, and the saved value of every other key as they
\* were, and the value it saves for its key is the value of an entry of the list.
C24_RotateFrame ==
    (LastIs("rotate") /\ LastList # <<>>) =>
        /\ last.status = 204
        /\ SameLists(last.pre, disk)
        /\ \A k \in SECRET_KEYS \ {LastKey} : readSecret(disk, k) = readSecret(last.pre, k)
        /\ \E i \in 1..Len(LastList) : readSecret(disk, LastKey) = LastList[i].value

\* A rotate changed the saved value of its key to that of the second of two
\* entries, in a document where another key has a saved value and a list.
C24_Witness ==
    /\ LastIs("rotate")
    /\ Len(LastList) = 2
    /\ LastActive # readSecret(disk, LastKey)
    /\ readSecret(disk, LastKey) = LastList[2].value
    /\ LastList[1].value # LastList[2].value
    /\ ListOf(disk, OtherKey) # <<>>
    /\ readSecret(disk, OtherKey) # Undef

\* The file holds a document with a saved value and no `managed` property.
Legacy(d) ==
    /\ d.exists
    /\ ~ParseThrows(d)
    /\ d.doc["managed"] = Undef
    /\ \E k \in SECRET_KEYS : d.doc[k] # Undef

\* The managed map that holds one list, of one entry, for one key.
OneEntry(key, comment, value) == [k \in {key} |-> <<[comment |-> comment, value |-> value]>>]

\* C29: on a document with saved values and no managed property, probe
\* answers {false, -1}, the manager state is empty, rotate and splice are
\* acknowledged and leave the file as it is, and append and migrate are
\* acknowledged and leave a managed property with one list of one entry for
\* the key, every saved value being as before.
C29_LegacyDocument ==
    Legacy(last.pre) =>
        /\ LastIs("probe") => (last.body = ProbeResult(FALSE, -1) /\ disk = last.pre)
        /\ LastIs("state") =>
              (last.status = 200 /\ DOMAIN last.body = {} /\ disk = last.pre)
        /\ (LastIs("rotate") \/ LastIs("splice")) =>
              (last.status = 204 /\ disk = last.pre)
        /\ LastIs("append") =>
              /\ last.status = 204
              /\ ManagedOf(disk) = OneEntry(LastKey, last.req.comment, last.req.value)
              /\ SameActives(last.pre, disk)
        /\ LastIs("migrate") =>
              /\ last.status = 204
              /\ ManagedOf(disk) = OneEntry(LastKey, last.req.comment, LastActive)
              /\ SameActives(last.pre, disk)

\* A migrate on such a document created the managed property with the saved value.
C29_Witness ==
    /\ Legacy(last.pre)
    /\ LastIs("migrate")
    /\ LastActive = Str("a")
    /\ getSecretState(disk)["managed"] = Obj(OneEntry(LastKey, CommentQ, Str("a")))

(***************************************************************************)
(* The client's commands.                                                  *)
(***************************************************************************)
\* A command of the client is over and each of its requests was answered.
Completed(cmd) == client.pc = "idle" /\ client.cmd = cmd /\ ~client.failed

\* The text is an integer numeral: digits and nothing else.
IsNumeral(text) == text # <<>> /\ LeadingDigits(text) = text

ClientList == ListOf(disk, ClientKey)
ClientActive == readSecret(disk, ClientKey)

\* C25: secret-rotate resolves its text once: an integer numeral is sent as
\* that integer, every other non-empty text is sent unchanged as a string;
\* so a text that is not a numeral and is, trimmed and without case, the
\* comment of an entry makes the first such entry the active one.
C25_RotateResolves ==
    Completed("rotate") =>
        /\ IsNumeral(client.text) => client.sent = Num(DecimalValue(client.text))
        /\ (~IsNumeral(client.text) /\ client.text # <<>>) =>
              /\ client.sent = Str(client.text)
              /\ CommentPositions(ClientList, client.text) # {} =>
                    ClientActive =
                        ClientList[Lowest(CommentPositions(ClientList, client.text)) + 1].value
\* The list and the value of the key when the command began.
StartList == ListOf(client.start, ClientKey)

\* The client removed the entry it saw as selected, and that entry existed.
RemovedSelected ==
    /\ Completed("clear") \/ Completed("remove")
    /\ client.selected
    /\ client.index < Len(StartList)

\* C26: after the client spliced the entry it saw as selected and rotated
\* with an empty search, the value of the removed entry is not the active
\* value, and the active value is the value of the first entry that is left,
\* when one is left; for every list of one entry or more.
C26_ClearCurrent ==
    RemovedSelected =>
        /\ ClientActive # StartList[client.index + 1].value
        /\ ClientList # <<>> => ClientActive = ClientList[1].value
\* The Clear All loop is running.
InLoop == client.pc = "loop"

\* Clear All is over.
ClearAllOver == client.pc = "idle" /\ client.cmd = "clear_all"

\* C27: Clear All terminates: once the client has written the empty value
\* and entered its loop of splices of index 0, the loop ends, whichever of
\* its splice and refresh requests fail; and when it ends after a write that
\* was acknowledged, the list of the key on the server is empty and the
\* active value is empty.
C27_ClearAllTerminates ==
    /\ InLoop ~> ClearAllOver
    /\ [](ClearAllOver /\ ~Truthy(ClientActive) => ClientList = <<>>)
\* Some entry of the list holds the value.
Holds(list, v) == \E i \in 1..Len(list) : list[i].value = v

\* C28: when the client has written a value for a key that its manager state
\* lists, and the SECRET_WRITTEN handler is done, the value is the value of an
\* entry of the server's list: the list as it was followed by one new entry
\* when it did not hold the value, and the list as it was when it did.
C28_WriteMigrates ==
    (Completed("write") /\ client.listed) =>
        /\ Holds(ClientList, client.value)
        /\ ClientList =
               IF Holds(StartList, client.value) THEN StartList
               ELSE Append(StartList, [comment |-> CommentQ, value |-> client.value])

\* A value the list did not hold was written and is now its last entry.
C28_Witness ==
    /\ Completed("write")
    /\ client.listed
    /\ Len(StartList) > 0
    /\ ~Holds(StartList, client.value)
    /\ ClientList[Len(ClientList)].value = client.value
    /\ Len(ClientList) = Len(StartList) + 1
====
